---------------------------- MODULE Spec2Model ----------------------------
(***************************************************************************)
(* Squat repetition detector (Project/analysis.py, class SquatAnalyzer)    *)
(* together with the live threshold tuning of Project/gui_app.py.          *)
(*                                                                         *)
(* The detector is a debounced two-phase state machine driven once per     *)
(* video frame by the dictionary of detected markers.  Pixel coordinates   *)
(* are integers (camera.py: cy = int(np.mean(...))).                       *)
(***************************************************************************)
EXTENDS Integers, Sequences, FiniteSets, TLC

(***************************************************************************)
(* Bounds of the model.                                                    *)
(***************************************************************************)
MaxReps == 2      \* update() is not explored once rep_count reaches this
MaxFrames == 3    \* largest min_frames_below argument given to __init__
MaxTrace == 5     \* longest recorded feed of a scripted run
MaxPlays == 3     \* the window's loop is not explored once the sound has
                  \* been played this often

(***************************************************************************)
(* Program constants.                                                      *)
(***************************************************************************)
DefaultTop == 200         \* __init__ default, also main.py / test_run.py
DefaultBottom == 350      \* __init__ default, also main.py / test_run.py
DefaultMinFrames == 1     \* __init__ default
MainMinFrames == 2        \* main.py / test_run.py
SliderFrom == 0           \* ttk.Scale from_
SliderTo == 800           \* ttk.Scale to

(***************************************************************************)
(* Input domains.                                                          *)
(***************************************************************************)
MarkerIds == {0, 1}
\* hip_id arguments given to the constructor (the default, and main.py's)
HipIds == {0}
\* vertical pixel coordinates the centre of marker 0 can be reported at
Readings == {100, 150, 200, 350, 400}
\* vertical pixel coordinates the centre of any other marker is reported at
OtherReadings == {300}
\* horizontal pixel coordinates (never read by the detector)
CenterXs == {320}
\* threshold arguments given to the constructor
ThresholdArgs == {DefaultTop, DefaultBottom}
\* min_frames_below arguments given to the constructor (the default among
\* them)
MinFramesArgs == ((0 - 1) .. MaxFrames) \cup {DefaultMinFrames}
\* slider positions, in tenths of a pixel (ttk.Scale yields floats)
SliderPositions ==
    { p \in {1000, 2005, 3500} : p >= SliderFrom * 10 /\ p <= SliderTo * 10 }

\* Optional[T] is a sequence of length 0 (None) or 1
None == << >>
Some(x) == << x >>

\* max(a, b)
Max(a, b) == IF a >= b THEN a ELSE b

\* float(hip_y): exact for every pixel coordinate (|hip_y| < 2^53)
Float(hip_y) == hip_y

\* int(float(slider.get())): truncation of a non-negative float, the
\* argument being given in tenths
IntOfFloat(tenths) == tenths \div 10

\* every dictionary camera.get_frame_and_markers() can hand to update()
MarkerDicts ==
    UNION { { m \in [ids -> { [center |-> << cx, cy >>] :
                                 cx \in CenterXs,
                                 cy \in Readings \cup OtherReadings }] :
                  \A id \in ids : m[id].center[2] \in
                      (IF id = 0 THEN Readings ELSE OtherReadings) }
            : ids \in SUBSET MarkerIds }

\* the dataclass SquatResult
SquatResult(rep_count, new_rep, depth, state, status_text) ==
    [rep_count |-> rep_count, new_rep |-> new_rep, depth |-> depth,
     state |-> state, status_text |-> status_text]

\* __init__ with the initial state misspelt
SquatAnalyzer_Typo(hip_id, top_threshold, bottom_threshold, min_frames_below, require_marker) ==
    [hip_id |-> hip_id,
     top_threshold |-> top_threshold,
     bottom_threshold |-> bottom_threshold,
     min_frames_below |-> Max(1, min_frames_below),
     require_marker |-> require_marker,
     state |-> "Above",
     rep_count |-> 0,
     below_frame_counter |-> 0]

\* __init__ putting thresholds given in the wrong order right
SquatAnalyzer_Sorts(hip_id, top_threshold, bottom_threshold, min_frames_below, require_marker) ==
    [hip_id |-> hip_id,
     top_threshold |-> IF bottom_threshold > top_threshold
                       THEN top_threshold ELSE bottom_threshold,
     bottom_threshold |-> IF bottom_threshold > top_threshold
                          THEN bottom_threshold ELSE top_threshold,
     min_frames_below |-> Max(1, min_frames_below),
     require_marker |-> require_marker,
     state |-> "above",
     rep_count |-> 0,
     below_frame_counter |-> 0]

\* SquatAnalyzer.__init__
SquatAnalyzer(hip_id, top_threshold, bottom_threshold, min_frames_below, require_marker) ==
    [hip_id |-> hip_id,
     top_threshold |-> top_threshold,
     bottom_threshold |-> bottom_threshold,
     min_frames_below |-> Max(1, min_frames_below),
     require_marker |-> require_marker,
     state |-> "above",
     rep_count |-> 0,
     below_frame_counter |-> 0]

\* the missing-marker path also dropping the debounce progress
MissingMarker_ClearsCounter(self) ==
    LET s == [self EXCEPT !.below_frame_counter = 0]
    IN  [self |-> s,
         ret |-> SquatResult(s.rep_count, FALSE, None, s.state,
                             IF s.require_marker
                             THEN "Hip marker not detected"
                             ELSE "No marker (ignored)")]

\* the missing-marker path going on without a reading when the marker is
\* optional: the frame counts as one that is not deep enough
MissingMarker_OptionalClears(self) ==
    IF self.require_marker
    THEN [self |-> self,
          ret |-> SquatResult(self.rep_count, FALSE, None, self.state,
                              "Hip marker not detected")]
    ELSE LET s == [self EXCEPT !.below_frame_counter = 0]
         IN  [self |-> s,
              ret |-> SquatResult(s.rep_count, FALSE, None, s.state,
                                  "No marker (ignored)")]

\* update(), hip marker not in markers
MissingMarker(self) ==
    IF self.require_marker
    THEN [self |-> self,
          ret |-> SquatResult(self.rep_count, FALSE, None, self.state,
                              "Hip marker not detected")]
    ELSE [self |-> self,
          ret |-> SquatResult(self.rep_count, FALSE, None, self.state,
                              "No marker (ignored)")]

\* the "above" branch without the else that clears the counter
AboveBranch_NoClear(self, hip_y) ==
    LET counted == IF hip_y >= self.bottom_threshold
                   THEN self.below_frame_counter + 1
                   ELSE self.below_frame_counter
    IN  IF counted >= self.min_frames_below
        THEN LET s == [self EXCEPT !.state = "below",
                                   !.below_frame_counter = 0]
             IN  [self |-> s,
                  ret |-> SquatResult(s.rep_count, FALSE, Some(Float(hip_y)),
                                      s.state, "Reached depth (below)")]
        ELSE LET s == [self EXCEPT !.below_frame_counter = counted]
             IN  [self |-> s,
                  ret |-> SquatResult(s.rep_count, FALSE, Some(Float(hip_y)),
                                      s.state, "Above / going down")]

\* the "above" branch switching one frame early
AboveBranch_OffByOne(self, hip_y) ==
    LET counted == IF hip_y >= self.bottom_threshold
                   THEN self.below_frame_counter + 1
                   ELSE 0
    IN  IF counted + 1 >= self.min_frames_below
        THEN LET s == [self EXCEPT !.state = "below",
                                   !.below_frame_counter = 0]
             IN  [self |-> s,
                  ret |-> SquatResult(s.rep_count, FALSE, Some(Float(hip_y)),
                                      s.state, "Reached depth (below)")]
        ELSE LET s == [self EXCEPT !.below_frame_counter = counted]
             IN  [self |-> s,
                  ret |-> SquatResult(s.rep_count, FALSE, Some(Float(hip_y)),
                                      s.state, "Above / going down")]

\* the "above" branch switching one frame late (> for >=)
AboveBranch_Late(self, hip_y) ==
    LET counted == IF hip_y >= self.bottom_threshold
                   THEN self.below_frame_counter + 1
                   ELSE 0
    IN  IF counted > self.min_frames_below
        THEN LET s == [self EXCEPT !.state = "below",
                                   !.below_frame_counter = 0]
             IN  [self |-> s,
                  ret |-> SquatResult(s.rep_count, FALSE, Some(Float(hip_y)),
                                      s.state, "Reached depth (below)")]
        ELSE LET s == [self EXCEPT !.below_frame_counter = counted]
             IN  [self |-> s,
                  ret |-> SquatResult(s.rep_count, FALSE, Some(Float(hip_y)),
                                      s.state, "Above / going down")]

\* the "above" branch without the reset of the counter once it switches
AboveBranch_KeepsOnSwitch(self, hip_y) ==
    LET counted == IF hip_y >= self.bottom_threshold
                   THEN self.below_frame_counter + 1
                   ELSE 0
    IN  IF counted >= self.min_frames_below
        THEN LET s == [self EXCEPT !.state = "below",
                                   !.below_frame_counter = counted]
             IN  [self |-> s,
                  ret |-> SquatResult(s.rep_count, FALSE, Some(Float(hip_y)),
                                      s.state, "Reached depth (below)")]
        ELSE LET s == [self EXCEPT !.below_frame_counter = counted]
             IN  [self |-> s,
                  ret |-> SquatResult(s.rep_count, FALSE, Some(Float(hip_y)),
                                      s.state, "Above / going down")]

\* update(), branch self.state == "above"
AboveBranch(self, hip_y) ==
    LET counted == IF hip_y >= self.bottom_threshold
                   THEN self.below_frame_counter + 1
                   ELSE 0
    IN  IF counted >= self.min_frames_below
        THEN LET s == [self EXCEPT !.state = "below",
                                   !.below_frame_counter = 0]
             IN  [self |-> s,
                  ret |-> SquatResult(s.rep_count, FALSE, Some(Float(hip_y)),
                                      s.state, "Reached depth (below)")]
        ELSE LET s == [self EXCEPT !.below_frame_counter = counted]
             IN  [self |-> s,
                  ret |-> SquatResult(s.rep_count, FALSE, Some(Float(hip_y)),
                                      s.state, "Above / going down")]

\* the "below" branch forgetting new_rep = True
BelowBranch_NoEvent(self, hip_y) ==
    IF hip_y <= self.top_threshold
    THEN LET s == [self EXCEPT !.state = "above",
                               !.rep_count = self.rep_count + 1]
         IN  [self |-> s,
              ret |-> SquatResult(s.rep_count, FALSE, Some(Float(hip_y)),
                                  s.state, "Rep completed!")]
    ELSE [self |-> self,
          ret |-> SquatResult(self.rep_count, FALSE, Some(Float(hip_y)),
                              self.state, "Below / coming up")]

\* the "below" branch counting the repetition twice
BelowBranch_DoubleCount(self, hip_y) ==
    IF hip_y <= self.top_threshold
    THEN LET s == [self EXCEPT !.state = "above",
                               !.rep_count = self.rep_count + 2]
         IN  [self |-> s,
              ret |-> SquatResult(s.rep_count, TRUE, Some(Float(hip_y)),
                                  s.state, "Rep completed!")]
    ELSE [self |-> self,
          ret |-> SquatResult(self.rep_count, FALSE, Some(Float(hip_y)),
                              self.state, "Below / coming up")]

\* the "below" branch with < for <=
BelowBranch_Strict(self, hip_y) ==
    IF hip_y < self.top_threshold
    THEN LET s == [self EXCEPT !.state = "above",
                               !.rep_count = self.rep_count + 1]
         IN  [self |-> s,
              ret |-> SquatResult(s.rep_count, TRUE, Some(Float(hip_y)),
                                  s.state, "Rep completed!")]
    ELSE [self |-> self,
          ret |-> SquatResult(self.rep_count, FALSE, Some(Float(hip_y)),
                              self.state, "Below / coming up")]

\* the "below" branch forgetting self.state = "above"
BelowBranch_StaysBelow(self, hip_y) ==
    IF hip_y <= self.top_threshold
    THEN LET s == [self EXCEPT !.rep_count = self.rep_count + 1]
         IN  [self |-> s,
              ret |-> SquatResult(s.rep_count, TRUE, Some(Float(hip_y)),
                                  s.state, "Rep completed!")]
    ELSE [self |-> self,
          ret |-> SquatResult(self.rep_count, FALSE, Some(Float(hip_y)),
                              self.state, "Below / coming up")]

\* the "below" branch returning the count read before the increment
BelowBranch_StaleCount(self, hip_y) ==
    IF hip_y <= self.top_threshold
    THEN LET s == [self EXCEPT !.state = "above",
                               !.rep_count = self.rep_count + 1]
         IN  [self |-> s,
              ret |-> SquatResult(self.rep_count, TRUE, Some(Float(hip_y)),
                                  s.state, "Rep completed!")]
    ELSE [self |-> self,
          ret |-> SquatResult(self.rep_count, FALSE, Some(Float(hip_y)),
                              self.state, "Below / coming up")]

\* update(), branch self.state == "below"
BelowBranch(self, hip_y) ==
    IF hip_y <= self.top_threshold
    THEN LET s == [self EXCEPT !.state = "above",
                               !.rep_count = self.rep_count + 1]
         IN  [self |-> s,
              ret |-> SquatResult(s.rep_count, TRUE, Some(Float(hip_y)),
                                  s.state, "Rep completed!")]
    ELSE [self |-> self,
          ret |-> SquatResult(self.rep_count, FALSE, Some(Float(hip_y)),
                              self.state, "Below / coming up")]

\* update(), the final else branch ("safety fallback")
FallbackBranch(self, hip_y) ==
    LET s == [self EXCEPT !.state = "above"]
    IN  [self |-> s,
         ret |-> SquatResult(s.rep_count, FALSE, Some(Float(hip_y)),
                             s.state, "State reset")]

\* SquatAnalyzer.update: the new object state and the returned SquatResult
update(self, markers) ==
    IF self.hip_id \notin DOMAIN markers
    THEN MissingMarker(self)
    ELSE LET hip_y == markers[self.hip_id].center[2]
         IN  IF self.state = "above" THEN AboveBranch(self, hip_y)
             ELSE IF self.state = "below" THEN BelowBranch(self, hip_y)
             ELSE FallbackBranch(self, hip_y)

\* reset() leaving the debounce counter alone
reset_KeepsCounter(self) ==
    [self EXCEPT !.state = "above", !.rep_count = 0]

\* reset() leaving the repetition count alone
reset_KeepsCount(self) ==
    [self EXCEPT !.state = "above", !.below_frame_counter = 0]

\* SquatAnalyzer.reset
reset(self) ==
    [self EXCEPT !.state = "above", !.rep_count = 0,
                 !.below_frame_counter = 0]

\* SquatApp._on_top_change
on_top_change(self, position) ==
    [self EXCEPT !.top_threshold = IntOfFloat(position)]

\* _on_bottom_change copied from _on_top_change with the field left as it was
on_bottom_change_WritesTop(self, position) ==
    [self EXCEPT !.top_threshold = IntOfFloat(position)]

\* SquatApp._on_bottom_change
on_bottom_change(self, position) ==
    [self EXCEPT !.bottom_threshold = IntOfFloat(position)]

(***************************************************************************)
(* State.                                                                  *)
(*   analyzer      the SquatAnalyzer object (its fields)                   *)
(*   result        the SquatResult returned by the latest update() call    *)
(*   fresh         a second SquatAnalyzer, constructed with the same       *)
(*                 arguments at start-up and constructed anew, with the    *)
(*                 current configuration, whenever analyzer is reset();    *)
(*                 it is fed the same frames and threshold changes         *)
(*   fresh_result  the SquatResult fresh returned on the latest cycle      *)
(*   twin          a third SquatAnalyzer, constructed with the same        *)
(*                 arguments except for the opposite require_marker, and   *)
(*                 given the same frames, resets and threshold changes     *)
(*   twin_result   the SquatResult twin returned on the latest cycle       *)
(*   app           the SquatApp window around the analyzer: running, the   *)
(*                 three label texts, and the number of calls made to      *)
(*                 sound_module.play_valid_squat_sound()                   *)
(*   hist          history of the run, read only by the properties         *)
(***************************************************************************)
VARIABLES analyzer, result, fresh, fresh_result, twin, twin_result, app, hist

vars == << analyzer, result, fresh, fresh_result, twin, twin_result, app,
           hist >>

\* SquatApp.__init__: running, the text of the Pause/Start button and the
\* texts of the three labels; no sound has been played
SquatApp ==
    [running |-> TRUE,
     start_stop_btn |-> "Pause",
     rep_var |-> "Reps: 0",
     state_var |-> "State: -",
     status_var |-> "Status: -",
     plays |-> 0]

\* what camera.get_frame_and_markers() returns: (None, {}) or a frame with
\* the markers detected in it
CameraOutputs ==
    { [frame |-> FALSE, markers |-> << >>] } \cup
    { [frame |-> TRUE, markers |-> m] : m \in MarkerDicts }

\* SquatApp.toggle_running
toggle_running(gui) ==
    [gui EXCEPT !.running = ~gui.running,
                !.start_stop_btn = IF ~gui.running THEN "Pause" ELSE "Start"]

\* reset_reps leaving the "Reps" label as it is
reset_reps_KeepsLabel(gui, self) ==
    [app |-> [gui EXCEPT !.state_var = "State: -",
                         !.status_var = "Status: -"],
     analyzer |-> reset(self)]

\* SquatApp.reset_reps
reset_reps(gui, self) ==
    [app |-> [gui EXCEPT !.rep_var = "Reps: 0",
                         !.state_var = "State: -",
                         !.status_var = "Status: -"],
     analyzer |-> reset(self)]

\* update_loop without the test of self.running
update_loop_IgnoresPause(gui, self, frame, markers) ==
    IF frame
    THEN LET r == update(self, markers)
         IN  [app |-> [gui EXCEPT
                  !.plays = IF r.ret.new_rep THEN gui.plays + 1
                            ELSE gui.plays,
                  !.rep_var = "Reps: " \o ToString(r.ret.rep_count),
                  !.state_var = "State: " \o r.ret.state,
                  !.status_var = "Status: " \o r.ret.status_text],
              analyzer |-> r.self,
              ret |-> Some(r.ret)]
    ELSE [app |-> gui, analyzer |-> self, ret |-> None]

\* update_loop playing the sound whenever the count is not zero
update_loop_SoundOnCount(gui, self, frame, markers) ==
    IF frame
    THEN IF gui.running
         THEN LET r == update(self, markers)
              IN  [app |-> [gui EXCEPT
                       !.plays = IF r.ret.rep_count > 0 THEN gui.plays + 1
                                 ELSE gui.plays,
                       !.rep_var = "Reps: " \o ToString(r.ret.rep_count),
                       !.state_var = "State: " \o r.ret.state,
                       !.status_var = "Status: " \o r.ret.status_text],
                   analyzer |-> r.self,
                   ret |-> Some(r.ret)]
         ELSE [app |-> gui, analyzer |-> self, ret |-> None]
    ELSE [app |-> gui, analyzer |-> self, ret |-> None]

\* SquatApp.update_loop: the window, the analyzer and the SquatResult (None
\* when update() was not called) after one pass of the loop
update_loop(gui, self, frame, markers) ==
    IF frame
    THEN IF gui.running
         THEN LET r == update(self, markers)
              IN  [app |-> [gui EXCEPT
                       !.plays = IF r.ret.new_rep THEN gui.plays + 1
                                 ELSE gui.plays,
                       !.rep_var = "Reps: " \o ToString(r.ret.rep_count),
                       !.state_var = "State: " \o r.ret.state,
                       !.status_var = "Status: " \o r.ret.status_text],
                   analyzer |-> r.self,
                   ret |-> Some(r.ret)]
         ELSE [app |-> gui, analyzer |-> self, ret |-> None]
    ELSE [app |-> gui, analyzer |-> self, ret |-> None]

\* the reading of the tracked marker in a frame: None when it is not seen
HipReading(self, markers) ==
    IF self.hip_id \in DOMAIN markers
    THEN Some(markers[self.hip_id].center[2])
    ELSE None

\* a present reading that counts towards the descent (>= bottom_threshold)
Qualifying(self, reading) ==
    reading # None /\ reading[1] >= self.bottom_threshold

\* the configuration of main.py and test_run.py (Scenarios A-D of the spec)
IsMainConfig(self) ==
    /\ self.hip_id = 0
    /\ self.top_threshold = DefaultTop
    /\ self.bottom_threshold = DefaultBottom
    /\ self.min_frames_below = MainMinFrames

\* nothing has been returned yet
NoResult == SquatResult(0, FALSE, None, "above", "")

InitHist(self) ==
    [last_op |-> "init",     \* the latest operation
     reading |-> None,       \* hip reading of the latest update() cycle
     cycle |-> "none",       \* kind of the latest update() cycle
     streak |-> 0,           \* consecutive qualifying cycles since the
                             \* detector stood in "above" with counter 0
     qrun |-> 0,             \* consecutive latest cycles with a reading
                             \* >= bottom_threshold > top_threshold (capped)
     reset_kind |-> "none",  \* the latest run of reset() calls found the
                             \* detector as constructed ("clean") or not
                             \* ("dirty")
     scripted |-> IsMainConfig(self),
     trace |-> << >>,        \* the feed of a scripted run
     ctor |-> None,          \* the arguments __init__ was called with, as
                             \* long as nothing has been called since
     since_rep |-> None,     \* qualifying cycles since the latest cycle
                             \* with new_rep (capped at min_frames_below);
                             \* None when there was none since the start
                             \* or the latest reset()
     qsince |-> 0,           \* in "above": qualifying cycles since the
                             \* latest present non-qualifying cycle,
                             \* transition or reset()
     transitions |-> 0]      \* below -> above transitions made by update()
                             \* calls of the window's loop

Init ==
    /\ \E hip_id \in HipIds, top \in ThresholdArgs, bottom \in ThresholdArgs,
          k \in MinFramesArgs, rm \in BOOLEAN :
          /\ analyzer = SquatAnalyzer(hip_id, top, bottom, k, rm)
          /\ twin = SquatAnalyzer(hip_id, top, bottom, k, ~rm)
          /\ hist = [InitHist(analyzer) EXCEPT !.ctor =
                        Some([hip_id |-> hip_id, top_threshold |-> top,
                              bottom_threshold |-> bottom,
                              min_frames_below |-> k,
                              require_marker |-> rm])]
    /\ fresh = analyzer
    /\ result = NoResult
    /\ fresh_result = NoResult
    /\ twin_result = NoResult
    /\ app = SquatApp

CycleKind(self, reading) ==
    IF reading = None THEN "absent"
    ELSE IF Qualifying(self, reading) THEN "qualifying"
    ELSE "other"

\* one update() cycle: a frame's markers are handed to the detector
Update ==
    /\ analyzer.rep_count < MaxReps
    /\ \E markers \in MarkerDicts :
         LET r == update(analyzer, markers)
             f == update(fresh, markers)
             t == update(twin, markers)
             reading == HipReading(analyzer, markers)
             qual == Qualifying(analyzer, reading)
             ordered == analyzer.bottom_threshold > analyzer.top_threshold
         IN  /\ analyzer' = r.self
             /\ result' = r.ret
             /\ fresh' = f.self
             /\ fresh_result' = f.ret
             /\ twin' = t.self
             /\ twin_result' = t.ret
             /\ UNCHANGED app
             /\ hist' = [hist EXCEPT
                   !.last_op = "update",
                   !.reading = reading,
                   !.cycle = CycleKind(analyzer, reading),
                   !.streak =
                       IF qual /\ analyzer.state = "above"
                               /\ (analyzer.below_frame_counter = 0
                                   \/ hist.streak > 0)
                       THEN IF analyzer.below_frame_counter = 0
                            THEN 1 ELSE hist.streak + 1
                       ELSE 0,
                   !.qrun =
                       IF qual /\ ordered
                       THEN IF hist.qrun < analyzer.min_frames_below
                            THEN hist.qrun + 1 ELSE hist.qrun
                       ELSE 0,
                   !.scripted = hist.scripted /\ Len(hist.trace) < MaxTrace,
                   !.trace = IF hist.scripted /\ Len(hist.trace) < MaxTrace
                             THEN Append(hist.trace, reading)
                             ELSE << >>,
                   !.ctor = None,
                   !.since_rep =
                       IF r.ret.new_rep THEN Some(0)
                       ELSE IF hist.since_rep = None THEN None
                       ELSE IF qual /\ hist.since_rep[1]
                                          < analyzer.min_frames_below
                       THEN Some(hist.since_rep[1] + 1)
                       ELSE hist.since_rep,
                   !.qsince =
                       IF r.self.state # "above"
                             \/ r.self.state # analyzer.state THEN 0
                       ELSE IF reading = None THEN hist.qsince
                       ELSE IF qual THEN hist.qsince + 1
                       ELSE 0]

\* reset() is called (the "Reset Reps" button)
Reset ==
    /\ analyzer' = reset(analyzer)
    /\ fresh' = SquatAnalyzer(analyzer.hip_id, analyzer.top_threshold,
                              analyzer.bottom_threshold,
                              analyzer.min_frames_below,
                              analyzer.require_marker)
    /\ twin' = reset(twin)
    /\ UNCHANGED << result, fresh_result, twin_result, app >>
    /\ hist' = [hist EXCEPT
          !.ctor = None,
          !.since_rep = None,
          !.qsince = 0,
          !.last_op = IF hist.last_op \in {"reset", "reset_again"}
                      THEN "reset_again" ELSE "reset",
          !.streak = 0,
          !.qrun = 0,
          !.reset_kind = IF hist.last_op \in {"reset", "reset_again"}
                         THEN hist.reset_kind
                         ELSE IF /\ analyzer.state = "above"
                                 /\ analyzer.rep_count = 0
                                 /\ analyzer.below_frame_counter = 0
                              THEN "clean" ELSE "dirty",
          !.scripted = FALSE,
          !.trace = << >>]

\* the top-threshold slider is moved between two cycles
OnTopChange ==
    \E position \in SliderPositions :
        /\ analyzer' = on_top_change(analyzer, position)
        /\ fresh' = on_top_change(fresh, position)
        /\ twin' = on_top_change(twin, position)
        /\ UNCHANGED << result, fresh_result, twin_result, app >>
        /\ hist' = [hist EXCEPT
              !.ctor = None,
              !.last_op = "top",
              !.scripted = FALSE,
              !.trace = << >>]

\* the bottom-threshold slider is moved between two cycles
OnBottomChange ==
    \E position \in SliderPositions :
        /\ analyzer' = on_bottom_change(analyzer, position)
        /\ fresh' = on_bottom_change(fresh, position)
        /\ twin' = on_bottom_change(twin, position)
        /\ UNCHANGED << result, fresh_result, twin_result, app >>
        /\ hist' = [hist EXCEPT
              !.ctor = None,
              !.last_op = "bottom",
              !.scripted = FALSE,
              !.trace = << >>]

Next == Update \/ Reset \/ OnTopChange \/ OnBottomChange

Spec == Init /\ [][Next]_vars

(***************************************************************************)
(* The application of main.py: the detector inside the SquatApp window.    *)
(* Tk runs the loop and the callbacks one at a time.  Of hist, the window  *)
(* keeps last_op, reading and transitions only.                            *)
(***************************************************************************)
\* main(): the analyzer of main.py inside a new window
InitApp ==
    /\ analyzer = SquatAnalyzer(0, DefaultTop, DefaultBottom, MainMinFrames,
                                TRUE)
    /\ twin = SquatAnalyzer(0, DefaultTop, DefaultBottom, MainMinFrames,
                            FALSE)
    /\ fresh = analyzer
    /\ result = NoResult
    /\ fresh_result = NoResult
    /\ twin_result = NoResult
    /\ app = SquatApp
    /\ hist = [InitHist(analyzer) EXCEPT !.scripted = FALSE]

\* one pass of update_loop, with whatever the camera returns
Tick ==
    /\ analyzer.rep_count < MaxReps
    /\ app.plays < MaxPlays
    /\ \E cam \in CameraOutputs :
         LET r == update_loop(app, analyzer, cam.frame, cam.markers)
             kind == IF ~cam.frame THEN "noframe"
                     ELSE IF ~app.running THEN "paused"
                     ELSE "update"
         IN  /\ analyzer' = r.analyzer
             /\ app' = r.app
             /\ result' = IF r.ret = None THEN result ELSE r.ret[1]
             /\ UNCHANGED << fresh, fresh_result, twin, twin_result >>
             /\ hist' = [hist EXCEPT
                   !.last_op = kind,
                   !.reading = IF kind = "update"
                               THEN HipReading(analyzer, cam.markers)
                               ELSE hist.reading,
                   !.transitions =
                       IF /\ r.ret # None
                          /\ analyzer.state = "below"
                          /\ r.analyzer.state = "above"
                       THEN hist.transitions + 1
                       ELSE hist.transitions]

\* the Pause/Start button
ToggleRunning ==
    /\ app' = toggle_running(app)
    /\ UNCHANGED << analyzer, result, fresh, fresh_result, twin, twin_result >>
    /\ hist' = [hist EXCEPT !.last_op = "toggle"]

\* the "Reset Reps" button
ResetReps ==
    LET r == reset_reps(app, analyzer)
    IN  /\ analyzer' = r.analyzer
        /\ app' = r.app
        /\ UNCHANGED << result, fresh, fresh_result, twin, twin_result >>
        /\ hist' = [hist EXCEPT !.last_op = "reset"]

NextApp ==
    Tick \/ ToggleRunning \/ ResetReps \/ OnTopChange \/ OnBottomChange

SpecApp == InitApp /\ [][NextApp]_vars

(***************************************************************************)
(* Properties.                                                             *)
(***************************************************************************)
\* the step is an update() cycle
IsUpdate == hist'.last_op = "update"

\* the step is a reset() call
IsReset == hist'.last_op \in {"reset", "reset_again"}

\* the four motion statuses of update()
MotionStatuses ==
    {"Above / going down", "Reached depth (below)",
     "Below / coming up", "Rep completed!"}

\* a scripted run (main.py's configuration, update() cycles only) whose feed
\* so far is exactly the given one
Fed(feed) == hist.scripted /\ hist.trace = feed

\* feeds of Scenarios A, B and C of the specification
ScenarioA == << Some(100), Some(400), Some(400), Some(150) >>
ScenarioB == << Some(400), Some(100), Some(400), Some(400), Some(150) >>
ScenarioC == << Some(400), Some(400), None, Some(150) >>

\* C1: on every update() cycle new_rep is true if and only if the cycle
\* moves the phase from "below" to "above"
C1_EventIffTransition ==
    [][ IsUpdate =>
          (result'.new_rep <=>
              (analyzer.state = "below" /\ analyzer'.state = "above")) ]_vars

\* an update() cycle has just fired the event on a below -> above transition
C1_Witness ==
    /\ hist.last_op = "update"
    /\ result.new_rep
    /\ analyzer.state = "above"
    /\ analyzer.rep_count = 2

\* C2: over update() cycles, with the thresholds changed between cycles,
\* rep_count never decreases and grows by at most 1 per cycle
C2_MonotonicCount ==
    [][ ~IsReset =>
          /\ analyzer'.rep_count >= analyzer.rep_count
          /\ analyzer'.rep_count <= analyzer.rep_count + 1 ]_vars

\* two repetitions counted without a reset, both thresholds having been
\* moved away from every constructor argument
C2_Witness ==
    /\ hist.reset_kind = "none"
    /\ analyzer.rep_count = 2
    /\ analyzer.top_threshold \notin ThresholdArgs
    /\ analyzer.bottom_threshold \notin ThresholdArgs

\* C3: debounce.  From "above" with counter 0 and min_frames_below = k:
\* each of the first k-1 consecutive qualifying cycles leaves the detector
\* in "above" (counter = cycles seen), the k-th moves it to "below"; a
\* present non-qualifying cycle after k-1 qualifying ones leaves it in
\* "above" with counter 0.  Scenario B: Low is reached at cycle 4 and the
\* count is 1 after cycle 5.
C3_Debounce ==
    [][ IsUpdate =>
          LET k == analyzer.min_frames_below IN
          /\ (hist'.streak > 0 /\ hist'.streak < k) =>
                /\ analyzer'.state = "above"
                /\ analyzer'.below_frame_counter = hist'.streak
          /\ hist'.streak = k =>
                /\ analyzer.state = "above"
                /\ analyzer'.state = "below"
          /\ (hist.streak = k - 1 /\ analyzer.state = "above"
                /\ hist'.cycle = "other") =>
                /\ analyzer'.state = "above"
                /\ analyzer'.below_frame_counter = 0
          /\ \A n \in 1 .. 3 :
                (hist'.scripted /\ hist'.trace = SubSeq(ScenarioB, 1, n)) =>
                    /\ analyzer'.state = "above"
                    /\ analyzer'.rep_count = 0
                    /\ analyzer'.below_frame_counter = (IF n = 2 THEN 0 ELSE 1)
          /\ (hist'.scripted /\ hist'.trace = SubSeq(ScenarioB, 1, 4)) =>
                analyzer'.state = "below" /\ analyzer'.rep_count = 0
          /\ (hist'.scripted /\ hist'.trace = ScenarioB) =>
                analyzer'.state = "above" /\ analyzer'.rep_count = 1 ]_vars

\* Scenario B has been fed completely
C3_Witness == Fed(ScenarioB) /\ analyzer.rep_count = 1

\* C4: a cycle without the tracked marker changes nothing in the detector,
\* returns new_rep = false, depth = None and a status that is none of the
\* motion statuses; qualifying cycles separated by such a cycle complete
\* the debounce, and Scenario C ends with rep_count = 1
C4_AbsenceInert ==
    [][ IsUpdate =>
          /\ hist'.reading = None =>
                /\ analyzer' = analyzer
                /\ result'.new_rep = FALSE
                /\ result'.depth = None
                /\ result'.rep_count = analyzer.rep_count
                /\ result'.state = analyzer.state
                /\ result'.status_text \notin MotionStatuses
          /\ (hist'.scripted
                /\ hist'.trace = << Some(400), None, Some(400) >>) =>
                analyzer'.state = "below"
          /\ (hist'.scripted /\ hist'.trace = SubSeq(ScenarioC, 1, 3)) =>
                analyzer'.state = "below" /\ analyzer'.rep_count = 0
          /\ (hist'.scripted /\ hist'.trace = ScenarioC) =>
                analyzer'.state = "above" /\ analyzer'.rep_count = 1 ]_vars

\* the debounce has been completed across a cycle without the marker
C4_Witness ==
    /\ Fed(<< Some(400), None, Some(400) >>)
    /\ analyzer.state = "below"

\* C5: in "below", one cycle with a reading <= top_threshold moves the
\* detector to "above", adds exactly 1 to rep_count and sets new_rep
C5_NoDebounceOnAscent ==
    [][ (IsUpdate /\ analyzer.state = "below" /\ hist'.reading # None
            /\ hist'.reading[1] <= analyzer.top_threshold) =>
          /\ analyzer'.state = "above"
          /\ analyzer'.rep_count = analyzer.rep_count + 1
          /\ result'.new_rep ]_vars

\* the ascent fired on the very first cycle after "below" was entered
C5_Witness ==
    /\ Fed(<< Some(400), Some(400), Some(200) >>)
    /\ result.new_rep
    /\ analyzer.rep_count = 1

\* C6 as claimed: for every constructed detector, a cycle with a reading
\* >= bottom_threshold that follows a cycle with a reading below it never
\* moves the detector from "above" to "below"
C6_SpikeRejectedAlways ==
    [][ (IsUpdate /\ hist.cycle = "other" /\ hist'.cycle = "qualifying"
            /\ analyzer.state = "above") =>
          analyzer'.state = "above" ]_vars

\* C6 amended: with min_frames_below >= 2, a cycle with a reading
\* >= bottom_threshold that follows a cycle with a reading below it leaves
\* the detector in "above" (counter 1, nothing counted), and the next
\* reading below bottom_threshold clears the counter again
C6_SpikeRejected ==
    [][ IsUpdate =>
          /\ (hist.cycle = "other" /\ hist'.cycle = "qualifying"
                /\ analyzer.state = "above"
                /\ analyzer.min_frames_below >= 2) =>
                /\ analyzer'.state = "above"
                /\ analyzer'.below_frame_counter = 1
                /\ analyzer'.rep_count = analyzer.rep_count
                /\ ~result'.new_rep
          /\ (hist'.cycle = "other" /\ analyzer.state = "above") =>
                /\ analyzer'.state = "above"
                /\ analyzer'.below_frame_counter = 0
                /\ analyzer'.rep_count = analyzer.rep_count
                /\ ~result'.new_rep ]_vars

\* an isolated spike between two readings below bottom_threshold has been
\* fed to a detector with min_frames_below = 2
C6_Witness ==
    /\ Fed(<< Some(100), Some(400), Some(100) >>)
    /\ analyzer.state = "above"
    /\ analyzer.below_frame_counter = 0
    /\ analyzer.rep_count = 0

\* C7: with bottom_threshold > top_threshold and min_frames_below = k, from
\* any state, k consecutive readings >= bottom_threshold count nothing and
\* end in "below", and a following reading <= top_threshold counts exactly
\* one repetition, fires the event and ends in "above".  Scenario A:
\* phases [above, above, below, above], events [F, F, F, T], count 1.
C7_OneRepPerExcursion ==
    [][ IsUpdate =>
          LET k == analyzer.min_frames_below IN
          /\ hist'.qrun >= 1 =>
                /\ ~result'.new_rep
                /\ analyzer'.rep_count = analyzer.rep_count
          /\ hist'.qrun >= k => analyzer'.state = "below"
          /\ (hist.qrun >= k /\ hist'.reading # None
                /\ analyzer.bottom_threshold > analyzer.top_threshold
                /\ hist'.reading[1] <= analyzer.top_threshold) =>
                /\ analyzer'.state = "above"
                /\ analyzer'.rep_count = analyzer.rep_count + 1
                /\ result'.new_rep
          /\ \A n \in 1 .. 2 :
                (hist'.scripted /\ hist'.trace = SubSeq(ScenarioA, 1, n)) =>
                    /\ result'.state = "above"
                    /\ ~result'.new_rep
          /\ (hist'.scripted /\ hist'.trace = SubSeq(ScenarioA, 1, 3)) =>
                result'.state = "below" /\ ~result'.new_rep
          /\ (hist'.scripted /\ hist'.trace = ScenarioA) =>
                /\ result'.state = "above"
                /\ result'.new_rep
                /\ analyzer'.rep_count = 1 ]_vars

\* Scenario A has been fed completely
C7_Witness == Fed(ScenarioA) /\ result.new_rep /\ analyzer.rep_count = 1

\* C8: reset() sets state = "above", rep_count = 0 and the debounce counter
\* to 0, leaves every configuration field as it was, and a reset() that
\* directly follows a reset() changes nothing
C8_Reset ==
    [][ IsReset =>
          /\ analyzer'.state = "above"
          /\ analyzer'.rep_count = 0
          /\ analyzer'.below_frame_counter = 0
          /\ analyzer'.hip_id = analyzer.hip_id
          /\ analyzer'.top_threshold = analyzer.top_threshold
          /\ analyzer'.bottom_threshold = analyzer.bottom_threshold
          /\ analyzer'.min_frames_below = analyzer.min_frames_below
          /\ analyzer'.require_marker = analyzer.require_marker
          /\ hist.last_op \in {"reset", "reset_again"} =>
                analyzer' = analyzer ]_vars

\* reset() has been called twice in a row on a detector that had counted
\* a repetition
C8_Witness ==
    /\ hist.last_op = "reset_again"
    /\ hist.reset_kind = "dirty"
    /\ result.rep_count >= 1
    /\ analyzer.rep_count = 0

\* C9: once reset() has been called, every update() cycle returns the same
\* SquatResult as it does on a detector freshly constructed, at the moment
\* of the reset, with the same configuration
C9_ResetLikeFresh ==
    [][ (IsUpdate /\ hist.reset_kind # "none") =>
          result' = fresh_result' ]_vars

\* a detector reset after it had processed cycles has counted a repetition
\* again
C9_Witness ==
    /\ hist.last_op = "update"
    /\ hist.reset_kind = "dirty"
    /\ result.new_rep
    /\ result.rep_count = 1
    /\ fresh_result.rep_count = 1

\* C10: the phase is always "above" or "below", and the fallback branch of
\* update() (status "State reset") is never taken
C10_TwoPhases ==
    /\ analyzer.state \in {"above", "below"}
    /\ result.state \in {"above", "below"}
    /\ result.status_text # "State reset"

\* update() has run in "below" after construction, cycles and a reset()
C10_Witness ==
    /\ hist.last_op = "update"
    /\ hist.reset_kind = "dirty"
    /\ result.status_text = "Below / coming up"

\* the same detector with the opposite require_marker
Flip(self) == [self EXCEPT !.require_marker = ~self.require_marker]

\* C11 as claimed: two detectors that differ only in require_marker return
\* the same SquatResult on every cycle and hold the same internal state
C11_FlagUnobservable ==
    [][ /\ twin' = Flip(analyzer')
        /\ IsUpdate => result' = twin_result' ]_vars

\* C11 amended: two detectors that differ only in require_marker hold the
\* same internal state and return the same rep_count, new_rep, depth and
\* state on every cycle; status_text is the same on every cycle with the
\* marker present, and differs ("Hip marker not detected" against
\* "No marker (ignored)") on every cycle without it
C11_FlagOnlyInStatus ==
    [][ /\ twin' = Flip(analyzer')
        /\ IsUpdate =>
              /\ result'.rep_count = twin_result'.rep_count
              /\ result'.new_rep = twin_result'.new_rep
              /\ result'.depth = twin_result'.depth
              /\ result'.state = twin_result'.state
              /\ hist'.reading # None =>
                    result'.status_text = twin_result'.status_text
              /\ hist'.reading = None =>
                    { result'.status_text, twin_result'.status_text } =
                        { "Hip marker not detected", "No marker (ignored)" }
      ]_vars

\* both detectors have been through a cycle without the marker while the
\* debounce was under way, after a repetition
C11_Witness ==
    /\ hist.last_op = "update"
    /\ hist.reading = None
    /\ analyzer.below_frame_counter = 1
    /\ twin.below_frame_counter = 1
    /\ analyzer.rep_count = 1
    /\ result.status_text # twin_result.status_text

\* C12 as claimed: the detector holds exactly the configuration values
\* __init__ was given, also thresholds in the wrong order and a non-positive
\* min_frames_below
C12_ConfigTakenAsGiven ==
    hist.ctor # None =>
        /\ analyzer.hip_id = hist.ctor[1].hip_id
        /\ analyzer.top_threshold = hist.ctor[1].top_threshold
        /\ analyzer.bottom_threshold = hist.ctor[1].bottom_threshold
        /\ analyzer.min_frames_below = hist.ctor[1].min_frames_below
        /\ analyzer.require_marker = hist.ctor[1].require_marker

\* the configuration the detector must hold for the given arguments:
\* everything as given, except a min_frames_below below 1, which becomes 1
HoldsArgs(self, args) ==
    /\ self.hip_id = args.hip_id
    /\ self.top_threshold = args.top_threshold
    /\ self.bottom_threshold = args.bottom_threshold
    /\ self.min_frames_below =
          (IF args.min_frames_below >= 1 THEN args.min_frames_below ELSE 1)
    /\ self.require_marker = args.require_marker

\* C12 amended: __init__ accepts thresholds in any order and keeps them as
\* given, and accepts a non-positive min_frames_below, which it raises to 1;
\* the first update() works with, and leaves, exactly that configuration
C12_ConfigKeptButClamped ==
    [][ hist.ctor # None =>
          /\ HoldsArgs(analyzer, hist.ctor[1])
          /\ analyzer.state = "above"
          /\ analyzer.rep_count = 0
          /\ analyzer.below_frame_counter = 0
          /\ IsUpdate => HoldsArgs(analyzer', hist.ctor[1]) ]_vars

\* a detector has been constructed with the thresholds in the wrong order
\* and a non-positive min_frames_below
C12_Witness ==
    /\ hist.ctor # None
    /\ hist.ctor[1].bottom_threshold < hist.ctor[1].top_threshold
    /\ hist.ctor[1].min_frames_below <= 0
    /\ analyzer.bottom_threshold < analyzer.top_threshold
    /\ analyzer.min_frames_below = 1

\* C16: a cycle with new_rep that follows an earlier one, with no reset()
\* in between, has at least min_frames_below qualifying cycles between the
\* two; new_rep is never true on two consecutive update() cycles
C16_NoDoubleCount ==
    [][ IsUpdate =>
          /\ (result'.new_rep /\ hist.since_rep # None) =>
                hist.since_rep[1] >= analyzer.min_frames_below
          /\ (hist.last_op = "update" /\ result.new_rep) =>
                ~result'.new_rep ]_vars

\* a second repetition has been counted by a detector with
\* min_frames_below = 3 that was never reset
C16_Witness ==
    /\ hist.last_op = "update"
    /\ hist.reset_kind = "none"
    /\ result.new_rep
    /\ analyzer.rep_count = 2
    /\ analyzer.min_frames_below = 3
    /\ hist.since_rep = Some(0)

\* C17: the SquatResult of every update() call carries the detector's
\* rep_count and state as they are after the call and the reading as depth
\* (None without the marker); with the marker present, status_text names
\* the move the cycle made
C17_ResultConsistent ==
    [][ IsUpdate =>
          /\ result'.rep_count = analyzer'.rep_count
          /\ result'.state = analyzer'.state
          /\ result'.depth = hist'.reading
          /\ hist'.reading # None =>
                /\ result'.status_text = "Reached depth (below)" <=>
                      (analyzer.state = "above" /\ analyzer'.state = "below")
                /\ result'.status_text = "Rep completed!" <=>
                      (analyzer.state = "below" /\ analyzer'.state = "above")
                /\ result'.status_text = "Above / going down" <=>
                      (analyzer.state = "above" /\ analyzer'.state = "above")
                /\ result'.status_text = "Below / coming up" <=>
                      (analyzer.state = "below" /\ analyzer'.state = "below")
      ]_vars

\* the second repetition has just been reported, at the boundary reading
C17_Witness ==
    /\ hist.last_op = "update"
    /\ result.status_text = "Rep completed!"
    /\ result.rep_count = 2
    /\ result.depth = Some(200)
    /\ analyzer.top_threshold = 200

\* C18: the debounce counter is at least 0 and below min_frames_below; it
\* is 0 in "below"; in "above" it is the number of qualifying cycles since
\* the latest present non-qualifying cycle, transition or reset()
C18_CounterInvariant ==
    /\ analyzer.below_frame_counter >= 0
    /\ analyzer.below_frame_counter < analyzer.min_frames_below
    /\ analyzer.state = "below" => analyzer.below_frame_counter = 0
    /\ analyzer.state = "above" => analyzer.below_frame_counter = hist.qsince

\* the counter stands at 2 of 3 after a cycle without the marker, in a
\* detector that was reset earlier
C18_Witness ==
    /\ hist.last_op = "update"
    /\ hist.cycle = "absent"
    /\ hist.reset_kind = "dirty"
    /\ analyzer.min_frames_below = 3
    /\ analyzer.below_frame_counter = 2
    /\ hist.qsince = 2

\* C13: in the running application bottom_threshold > top_threshold holds
\* in every reachable state
C13_ThresholdOrder ==
    analyzer.bottom_threshold > analyzer.top_threshold

\* C14: a pass of the loop made while paused, or without a frame, leaves
\* the analyzer, the latest result, the labels and the sound count alone;
\* the Pause/Start button changes running and nothing of the analyzer;
\* update() is called only while running
C14_PausedIsInert ==
    [][ /\ hist'.last_op \in {"paused", "noframe"} =>
              /\ analyzer' = analyzer
              /\ result' = result
              /\ app' = app
        /\ hist'.last_op = "paused" => ~app.running
        /\ hist'.last_op = "toggle" =>
              /\ analyzer' = analyzer
              /\ app'.running = ~app.running
              /\ app'.plays = app.plays
              /\ app'.rep_var = app.rep_var
        /\ hist'.last_op = "update" => app.running ]_vars

\* a pass of the loop has been made while paused, the detector being in
\* "below" with one repetition counted
C14_Witness ==
    /\ hist.last_op = "paused"
    /\ ~app.running
    /\ analyzer.state = "below"
    /\ analyzer.rep_count = 1
    /\ app.plays = 1

\* C15: a pass of the loop plays the sound, once, exactly when it called
\* update() and update() returned new_rep; the number of sounds played is
\* the number of below -> above transitions made by update(); a pass that
\* is paused, has no frame, lacks the marker or moves above -> below plays
\* nothing
C15_SoundIffNewRep ==
    [][ /\ app'.plays \in { app.plays, app.plays + 1 }
        /\ app'.plays = app.plays + 1 <=>
              (hist'.last_op = "update" /\ result'.new_rep)
        /\ app'.plays = hist'.transitions
        /\ hist'.last_op \in {"paused", "noframe"} => app'.plays = app.plays
        /\ (hist'.last_op = "update" /\ hist'.reading = None) =>
              app'.plays = app.plays
        /\ (hist'.last_op = "update" /\ analyzer.state = "above"
              /\ analyzer'.state = "below") =>
              app'.plays = app.plays ]_vars

\* the sound has been played for the third time, after a reset of the
\* count and a pause
C15_Witness ==
    /\ hist.last_op = "update"
    /\ result.new_rep
    /\ app.plays = 3
    /\ hist.transitions = 3
    /\ analyzer.rep_count = 1

\* C19: the "Reps" label always shows the detector's rep_count
C19_LabelShowsCount ==
    app.rep_var = "Reps: " \o ToString(analyzer.rep_count)

\* "Reset Reps" has been clicked after repetitions were counted and shown
C19_Witness ==
    /\ hist.last_op = "reset"
    /\ app.plays = 2
    /\ result.rep_count = 2
    /\ app.rep_var = "Reps: 0"
    /\ analyzer.rep_count = 0

\* C20: the top slider changes top_threshold and nothing else of the
\* analyzer, the bottom slider changes bottom_threshold and nothing else;
\* neither changes the latest result, the labels or the sound count
C20_TuningTouchesOneField ==
    [][ /\ hist'.last_op = "top" =>
              /\ analyzer' = [analyzer EXCEPT
                     !.top_threshold = analyzer'.top_threshold]
              /\ result' = result
              /\ app' = app
              /\ hist'.transitions = hist.transitions
        /\ hist'.last_op = "bottom" =>
              /\ analyzer' = [analyzer EXCEPT
                     !.bottom_threshold = analyzer'.bottom_threshold]
              /\ result' = result
              /\ app' = app
              /\ hist'.transitions = hist.transitions ]_vars

\* the bottom slider has been moved below the latest reading while the
\* detector stood in "above" with one repetition counted
C20_Witness ==
    /\ hist.last_op = "bottom"
    /\ analyzer.bottom_threshold = 100
    /\ analyzer.top_threshold = DefaultTop
    /\ analyzer.state = "above"
    /\ analyzer.rep_count = 1
    /\ result.new_rep

=============================================================================
